---- MODULE Spec2Model ----
(***************************************************************************)
(* A model of math_nerd::int_mod (src/int_mod.h): the class int_mod<N>,    *)
(* a signed 64-bit element kept modulo the template parameter N, and the   *)
(* helpers of namespace impl_details (gcd, euler_phi, ipow, inverse_of,    *)
(* standard_modulo).                                                       *)
(*                                                                         *)
(* s64 values that the code keeps below 2^31 in absolute value are plain   *)
(* integers here.  The products the code forms (element_ * rhs, tmp * tmp, *)
(* base * tmp * tmp) and INT64_MAX are 64-bit quantities: they are         *)
(* computed exactly on sign-magnitude numbers made of 15-bit limbs, and a  *)
(* product outside [-2^63, 2^63) is flagged as a signed overflow and       *)
(* reduced to its two's-complement 64-bit value.                           *)
(***************************************************************************)
EXTENDS Integers, Sequences, FiniteSets, TLC

VARIABLES
    N,          \* the template parameter of int_mod<N> / inverse_of<N>
    element_,   \* int_mod<N>::element_ of the object under test
    phi,        \* the function-local static of inverse_of<N>
    last,       \* the call made last: its name, arguments and outcome
    calls,      \* number of calls made so far
    thread,     \* the threads calling inverse_of<N>: where each one is
    stack       \* the frames of a recursive function, the innermost last

vars == <<N, element_, phi, last, calls, thread, stack>>

---------------------------------------------------------------------------
(* Bounds of the model. *)

\* moduli 2..MaxN are instantiated in Spec and SpecFn
MaxN == 5
\* raw integers -Span..Span are passed besides the edge values of a modulus
Span == 3
\* gcd is called on -MaxArg..MaxArg
MaxArg == 6
\* euler_phi is called on 1..MaxPhiArg
MaxPhiArg == 12
\* ipow is called with the exponents -MaxExp..MaxExp
MaxExp == 4
\* iterations of the overflow-avoidance loop followed before it is reported
\* as not terminating
LoopFuel == 3
\* calls the driver makes on an object of a small modulus, of the large
\* modulus, and calls of the free functions of impl_details
MaxCalls == 1
MaxCallsBig == 2
MaxFnCalls == 1
\* threads that call inverse_of<N>, and the calls each of them makes
NThreads == 2
MaxThreadCalls == 2

\* the smallest modulus above 2^21: three factors below it can exceed 2^63
BigN == 2^21 + 1
\* the largest modulus the tests instantiate
Ceiling == 10^9

---------------------------------------------------------------------------
(* C++ integer arithmetic on small values. *)

Abs(x) == IF x < 0 THEN -x ELSE x

Sign(neg, x) == IF neg THEN -x ELSE x

\* a / b of C++: the quotient truncated toward zero
CDiv(a, b) == Sign((a < 0) /= (b < 0), Abs(a) \div Abs(b))

\* a % b of C++: the remainder has the sign of the dividend
CRem(a, b) == IF a < 0 THEN -((-a) % Abs(b)) ELSE a % Abs(b)

---------------------------------------------------------------------------
(* 64-bit arithmetic: magnitudes are little-endian sequences of NLimbs     *)
(* limbs of LimbBits bits.                                                 *)

LimbBits == 15
LimbBase == 2^LimbBits
NLimbs == 7

ZeroMag == [i \in 1..NLimbs |-> 0]

\* the magnitude of a small natural number
MagOf(n) ==
    [i \in 1..NLimbs |->
        IF i = 1 THEN n % LimbBase
        ELSE IF i = 2 THEN (n \div LimbBase) % LimbBase
        ELSE IF i = 3 THEN n \div (LimbBase * LimbBase)
        ELSE 0]

\* 2^63 and 2^64
Mag2p63 == [i \in 1..NLimbs |-> IF i = 5 THEN 8 ELSE 0]
Mag2p64 == [i \in 1..NLimbs |-> IF i = 5 THEN 16 ELSE 0]

RECURSIVE CmpFrom(_, _, _)
CmpFrom(a, b, i) ==
    IF i = 0 THEN 0
    ELSE IF a[i] < b[i] THEN -1
    ELSE IF a[i] > b[i] THEN 1
    ELSE CmpFrom(a, b, i - 1)

\* -1, 0, 1 as a < b, a = b, a > b
CmpMag(a, b) == CmpFrom(a, b, NLimbs)

RECURSIVE AddFrom(_, _, _, _)
AddFrom(a, b, i, carry) ==
    IF i > NLimbs THEN <<>>
    ELSE LET t == a[i] + b[i] + carry
         IN  <<t % LimbBase>> \o AddFrom(a, b, i + 1, t \div LimbBase)

AddMag(a, b) == AddFrom(a, b, 1, 0)

RECURSIVE SubFrom(_, _, _, _)
SubFrom(a, b, i, borrow) ==
    IF i > NLimbs THEN <<>>
    ELSE LET t == a[i] - b[i] - borrow
         IN  <<(t + LimbBase) % LimbBase>>
             \o SubFrom(a, b, i + 1, IF t < 0 THEN 1 ELSE 0)

\* a - b for a >= b
SubMag(a, b) == SubFrom(a, b, 1, 0)

RECURSIVE MulLimbFrom(_, _, _, _)
MulLimbFrom(a, d, i, carry) ==
    IF i > NLimbs THEN <<>>
    ELSE LET t == a[i] * d + carry
         IN  <<t % LimbBase>> \o MulLimbFrom(a, d, i + 1, t \div LimbBase)

\* p shifted up by k limbs
ShiftLimbs(p, k) == [i \in 1..NLimbs |-> IF i <= k THEN 0 ELSE p[i - k]]

\* a * d for one limb d, shifted up by k limbs
MulLimb(a, d, k) == ShiftLimbs(MulLimbFrom(a, d, 1, 0), k)

\* a * n for a natural number n below LimbBase^(3 - k), shifted up by k limbs
RECURSIVE MulFrom(_, _, _)
MulFrom(a, n, k) ==
    IF n = 0 THEN ZeroMag
    ELSE AddMag(MulLimb(a, n % LimbBase, k),
                MulFrom(a, n \div LimbBase, k + 1))

\* a * n for a small natural number n
MulMag(a, n) == MulFrom(a, n, 0)

\* a mod 2^64
Low64(a) ==
    [i \in 1..NLimbs |-> IF i < 5 THEN a[i] ELSE IF i = 5 THEN a[i] % 16 ELSE 0]

\* long division of the limb by n, bit k down to bit 1: the remainder so far
\* r < n, the quotient bits so far q
RECURSIVE DivBits(_, _, _, _, _)
DivBits(r, limb, n, k, q) ==
    IF k = 0 THEN [q |-> q, r |-> r]
    ELSE LET r2 == 2 * r + ((limb \div (2^(k - 1))) % 2)
         IN  IF r2 >= n THEN DivBits(r2 - n, limb, n, k - 1, 2 * q + 1)
             ELSE DivBits(r2, limb, n, k - 1, 2 * q)

\* long division of a magnitude by a small n, 0 < n < 2^30, from limb i
\* down: the remainder so far r, the quotient limbs so far q
RECURSIVE DivFrom(_, _, _, _, _)
RECURSIVE DivLimb(_, _, _, _, _)
DivFrom(a, n, i, r, q) ==
    IF i = 0 THEN [q |-> q, r |-> r]
    ELSE DivLimb(a, n, i, q,
                 IF n < LimbBase
                 THEN [q |-> (r * LimbBase + a[i]) \div n,
                       r |-> (r * LimbBase + a[i]) % n]
                 ELSE DivBits(r, a[i], n, LimbBits, 0))

DivLimb(a, n, i, q, s) == DivFrom(a, n, i - 1, s.r, <<s.q>> \o q)

DivModMag(a, n) == DivFrom(a, n, NLimbs, 0, <<>>)

---------------------------------------------------------------------------
(* Signed 64-bit values: [neg, mag]. *)

Signed(neg, m) == [neg |-> neg /\ m /= ZeroMag, mag |-> m]

WideOf(x) == [neg |-> x < 0, mag |-> MagOf(Abs(x))]

\* INT64_MAX
Int64Max == [neg |-> FALSE, mag |-> SubMag(Mag2p63, MagOf(1))]

\* the exact product of a 64-bit value and a small integer
WideMul(w, x) == Signed(w.neg /= (x < 0), MulMag(w.mag, Abs(x)))

\* whether an exact value is representable as an s64
InS64(w) == CmpMag(w.mag, Mag2p63) < 0 \/ (w.neg /\ w.mag = Mag2p63)

\* the two's-complement value of the exact value with sign neg whose
\* magnitude is r modulo 2^64, c comparing r to 2^63
Wrap64Of(neg, r, c) ==
    IF r = ZeroMag THEN [neg |-> FALSE, mag |-> ZeroMag]
    ELSE IF (~neg /\ c < 0) \/ (neg /\ c <= 0) THEN [neg |-> neg, mag |-> r]
    ELSE [neg |-> ~neg, mag |-> SubMag(Mag2p64, r)]

\* the two's-complement 64-bit value of an exact value
Wrap64(w) == Wrap64Of(w.neg, Low64(w.mag), CmpMag(Low64(w.mag), Mag2p63))

\* the exact value p as an s64: the value a wrapping build leaves, and whether
\* it overflowed (undefined behaviour)
S64Of(p) == [v |-> Wrap64(p), ovf |-> ~InS64(p)]

\* w * x as the s64 multiplication computes it
S64Mul(w, x) == S64Of(WideMul(w, x))

\* w % n of C++ for a small n /= 0: a small integer
WideRem(w, n) == Sign(w.neg, DivModMag(w.mag, Abs(n)).r)

\* w / n of C++ for a small n /= 0
WideDiv(w, n) == Signed(w.neg /= (n < 0), DivModMag(w.mag, Abs(n)).q)

\* w < x for a 64-bit w and a small x
WideLess(w, x) ==
    IF w.neg /= (x < 0) THEN w.neg
    ELSE CmpMag(w.mag, MagOf(Abs(x))) = (IF w.neg THEN 1 ELSE -1)

\* w - x for w >= 0 and a small x with 0 <= x <= w
WideSub(w, x) == [neg |-> FALSE, mag |-> SubMag(w.mag, MagOf(x))]

\* p % n, with the overflow that produced p
S64Rem(p, n) == [v |-> WideRem(p.v, n), ovf |-> p.ovf]

\* ((w * xs[1]) * xs[2]) ... as s64 multiplications, ovf telling whether one
\* of them overflowed
RECURSIVE S64Product(_, _)
RECURSIVE S64Times(_, _, _)
S64Product(p, xs) ==
    IF xs = <<>> THEN p ELSE S64Times(S64Mul(p.v, Head(xs)), p.ovf, Tail(xs))

S64Times(p, ovf, xs) == S64Product([v |-> p.v, ovf |-> ovf \/ p.ovf], xs)

\* the result r of a computation that started after an overflow or not
OvfOr(ovf, r) == [ovf |-> ovf \/ r.ovf, v |-> r.v]

---------------------------------------------------------------------------
(* namespace impl_details *)

\* gcd(a, b): the Euclidean algorithm on the operands as given; a % b is the
\* remainder of C++
RECURSIVE gcd_signed(_, _)
gcd_signed(a, b) == IF b = 0 THEN a ELSE gcd_signed(b, CRem(a, b))

\* the same recursion for a, b >= 0: the remainder of C++ is then a % b, and
\* the operands of every further call are >= 0 again
RECURSIVE gcd_natural(_, _)
gcd_natural(a, b) == IF b = 0 THEN a ELSE gcd_natural(b, a % b)

gcd(a, b) ==
    IF a >= 0 /\ b >= 0 THEN gcd_natural(a, b) ELSE gcd_signed(a, b)

\* the loop of euler_phi: how many i in lo..hi have gcd(i, n) == 1
RECURSIVE CoprimeCount(_, _, _)
CoprimeCount(lo, hi, n) ==
    IF lo > hi THEN 0
    ELSE IF lo = hi THEN (IF gcd(lo, n) = 1 THEN 1 ELSE 0)
    ELSE LET mid == (lo + hi) \div 2
         IN  CoprimeCount(lo, mid, n) + CoprimeCount(mid + 1, hi, n)

\* the loop of euler_phi with res starting at 0
euler_phi_from_zero(n) == CoprimeCount(2, n - 1, n)

\* euler_phi(n): res starts at 1 and is incremented for each i in [2, n) with
\* gcd(i, n) == 1
euler_phi(n) == 1 + CoprimeCount(2, n - 1, n)

\* ipow(base, exponent, n): [v, ovf], the value returned and whether a
\* multiplication overflowed on the way.  The test exponent < 0 constructs a
\* std::invalid_argument and discards it: it changes nothing.
\* The recursion calls itself with exponent / 2 until the exponent is 0,
\* ipow_depth(exponent) calls below the first, and the innermost call returns
\* 1.  ipow_unwind then lets the calls return, innermost first: call number k
\* (the first is number 0) has the exponent exponent / 2^k and returns
\* ipow_return of what call k + 1 returned.
ipow_depth(exponent) ==
    CHOOSE k \in 0..31 : CDiv(exponent, 2^k) = 0

\* return (tmp * tmp) % N;  or  return (base * tmp * tmp) % N;
\* Factors below 2^10 in absolute value have a product below 2^30, which is
\* formed on plain integers; any other product is formed in 64 bits.
ipow_return(base, exponent, n, tmp) ==
    IF Abs(base) < 2^10 /\ Abs(tmp.v) < 2^10
    THEN [v |-> CRem(IF CRem(exponent, 2) = 0 THEN tmp.v * tmp.v
                     ELSE base * tmp.v * tmp.v, n),
          ovf |-> FALSE]
    ELSE S64Rem(S64Product([v |-> WideOf(IF CRem(exponent, 2) = 0 THEN tmp.v
                                         ELSE base),
                            ovf |-> FALSE],
                           IF CRem(exponent, 2) = 0 THEN <<tmp.v>>
                           ELSE <<tmp.v, tmp.v>>),
                n)

\* the returns of the calls hi, hi - 1, ..., lo, tmp being what call hi + 1
\* returned
RECURSIVE ipow_unwind(_, _, _, _, _, _)
ipow_unwind(base, exponent, n, lo, hi, tmp) ==
    OvfOr(tmp.ovf,
          IF lo = hi THEN ipow_return(base, CDiv(exponent, 2^lo), n, tmp)
          ELSE ipow_unwind(base, exponent, n, lo, (lo + hi) \div 2,
                           ipow_unwind(base, exponent, n,
                                       (lo + hi) \div 2 + 1, hi, tmp)))

ipow(base, exponent, n) ==
    IF base = 0 THEN [v |-> 0, ovf |-> FALSE]
    ELSE IF exponent = 0 THEN [v |-> 1, ovf |-> FALSE]
    ELSE ipow_unwind(base, exponent, n, 0, ipow_depth(exponent) - 1,
                     [v |-> 1, ovf |-> FALSE])

\* standard_modulo adding n once to a negative rhs
standard_modulo_once(n, rhs) ==
    IF rhs < 0 THEN rhs + n
    ELSE IF rhs > n THEN CRem(rhs, n)
    ELSE rhs

\* standard_modulo<n>(rhs)
standard_modulo(n, rhs) ==
    IF rhs < 0 THEN rhs + (-CDiv(rhs, n) + 1) * n
    ELSE IF rhs > n THEN CRem(rhs, n)
    ELSE rhs

\* the text inverse_of streams into its std::invalid_argument
NotInvertibleMsg(n, m, d) ==
    <<n, " is not invertible modulo ", m, " because gcd(", n, ", ", m,
      ") = ", d, ", which is not 1.\n">>

NoMsg == <<>>

\* the first block of inverse_of<N>: the static phi after the lazy
\* initialisation
phi_after_init == IF phi = 0 THEN euler_phi(N) ELSE phi

\* inv = ipow(n % N, phi - 1, N); return inv;
inverse_found(r) == [status |-> "ok", v |-> r.v, ovf |-> r.ovf, msg |-> NoMsg]

\* the rest of inverse_of<n>(x), with the static holding ph
inverse_of(n, x, ph) ==
    LET d == gcd(x, n)
    IN  IF d = 1 THEN inverse_found(ipow(CRem(x, n), ph - 1, n))
        ELSE [status |-> "throw", v |-> 0, ovf |-> FALSE,
              msg |-> NotInvertibleMsg(x, n, d)]

---------------------------------------------------------------------------
(* Outcomes of a call on the object: the element it leaves, what it returns *)
(* and how it ends.                                                         *)
(*   "ok"         returned                                                  *)
(*   "throw"      left by a std::invalid_argument carrying msg              *)
(*   "trap"       stopped by the platform (integer division by zero, or a   *)
(*                signed overflow in a build that traps on it)              *)
(*   "hang"       still inside the overflow-avoidance loop after LoopFuel   *)
(*                iterations with nothing that can end it                   *)
(*   "ill_formed" the operator template cannot be instantiated              *)

Returned(elem, ret, ovf) ==
    [elem |-> elem, ret |-> ret, status |-> "ok", msg |-> NoMsg, ovf |-> ovf]

Thrown(elem, msg) ==
    [elem |-> elem, ret |-> 0, status |-> "throw", msg |-> msg, ovf |-> FALSE]

Stopped(elem, how, ovf) ==
    [elem |-> elem, ret |-> 0, status |-> how, msg |-> NoMsg, ovf |-> ovf]

ModByZeroMsg == <<"Cannot mod by zero.">>

\* what the undefined behaviour of the code turns into, by build
OverflowOutcomes == {"wrap", "trap"}
DivZeroOutcomes == {"trap", "zero"}

---------------------------------------------------------------------------
(* class int_mod<N> *)

\* the constructor without its second statement, element_ %= N
int_mod_unreduced(n, num) == standard_modulo(n, num)

\* int_mod(s64 num)
int_mod_ctor(n, num) == CRem(standard_modulo(n, num), n)

\* the outcome of a call that leaves the element and returns r.v
ReturnedValue(elem, r) == Returned(elem, r.v, r.ovf)

\* the outcome of a call that assigns r.v to the element and returns *this
Assigned(r) == Returned(r.v, r.v, r.ovf)

\* inverse(): inverse_of<N>(element_) in the try block, whose
\* std::invalid_argument is thrown again, and inverse_of<N>(element_) once
\* more in the return statement
inverse_rethrow(e, r, again) ==
    IF r.status = "throw" THEN Thrown(e, r.msg) ELSE ReturnedValue(e, again)

inverse(n, e, ph) ==
    inverse_rethrow(e, inverse_of(n, e, ph), inverse_of(n, e, ph))

\* an increment that never wraps: ++element_ alone
pre_increment_unwrapped(n, e) == e + 1

\* operator++()
pre_increment(n, e) == IF e = n - 1 THEN 0 ELSE e + 1

\* operator--()
pre_decrement(n, e) == IF e = 0 THEN n - 1 ELSE e - 1

\* a postfix increment that returns *this after the update
post_increment_updated(n, e) ==
    Returned(pre_increment(n, e), pre_increment(n, e), FALSE)

\* operator++(int): int_mod<N> tmp(*this); operator++(); return tmp;
post_increment(n, e) == Returned(pre_increment(n, e), e, FALSE)

\* operator--(int): int_mod<N> tmp(*this); operator--(); return tmp;
post_decrement(n, e) == Returned(pre_decrement(n, e), e, FALSE)

\* operator=(int_mod<N> const rhs), rhs.value() = r
assign_mod(n, e, r) == Returned(r, r, FALSE)

\* operator+=(int_mod<N> const rhs)
plus_assign_mod(n, e, r) ==
    LET e2 == CRem(e + r, n) IN Returned(e2, e2, FALSE)

\* operator-=(int_mod<N> const rhs)
minus_assign_mod(n, e, r) ==
    LET e2 == IF r > e THEN n - (r - e) ELSE e - r
    IN  Returned(e2, e2, FALSE)

\* element_ *= rhs; element_ %= N;
multiply_reduce(n, e, rhs) == S64Rem(S64Mul(WideOf(e), rhs), n)

\* operator*=(int_mod<N> const rhs)
times_assign_mod(n, e, r) == Assigned(multiply_reduce(n, e, r))

\* operator/=(int_mod<N> const rhs): element_ *= rhs.inverse();
\* element_ %= N;
times_inverse(n, e, inv) ==
    IF inv.status = "throw" THEN Thrown(e, inv.msg)
    ELSE Assigned(OvfOr(inv.ovf, multiply_reduce(n, e, inv.ret)))

div_assign_mod(n, e, r, ph) == times_inverse(n, e, inverse(n, r, ph))

\* operator%=(int_mod<N> const rhs)
rem_assign_mod(n, e, r) ==
    IF r /= 0 THEN Returned(CRem(e, r), CRem(e, r), FALSE)
    ELSE Thrown(e, ModByZeroMsg)

\* operator=(s64 rhs)
assign_s64(n, e, rhs) ==
    LET e2 == CRem(standard_modulo(n, rhs), n) IN Returned(e2, e2, FALSE)

\* if( INT64_MAX - rhs < element_ ) { rhs -= N; }  element_ += rhs;
\* element_ %= N;  for rhs already normalised
plus_reduce(n, e, rhs) ==
    CRem(e + (IF WideLess(WideSub(Int64Max, rhs), e) THEN rhs - n ELSE rhs), n)

\* operator+=(s64 rhs)
plus_assign_s64(n, e, rhs) ==
    LET e2 == plus_reduce(n, e, standard_modulo(n, rhs))
    IN  Returned(e2, e2, FALSE)

\* operator-=(s64 rhs) without rhs = impl_details::standard_modulo<N>(rhs)
minus_assign_raw(n, e, rhs) ==
    LET e2 == IF rhs > e THEN n - (rhs - e) ELSE e - rhs
    IN  Returned(e2, e2, FALSE)

\* operator-=(s64 rhs)
minus_assign_s64(n, e, rhs) ==
    LET r1 == standard_modulo(n, rhs)
        e2 == IF r1 > e THEN n - (r1 - e) ELSE e - r1
    IN  Returned(e2, e2, FALSE)

\* while( INT64_MAX / rhs < element_ ) { element_ += old_element;
\* element_ %= N; rhs -= 1; }: the element and rhs it ends with, or "hang"
\* when it is still running with the fuel used up.  INT64_MAX / rhs is a
\* division by zero for rhs = 0: dz tells whether this build traps on it or
\* yields 0.  For the operands of this model the loop is entered with
\* rhs <= 0 only, and rhs <= 0 then stays: nothing ends it.
RECURSIVE avoid_overflow_loop(_, _, _, _, _, _)
avoid_overflow_loop(n, e, old, rhs, dz, fuel) ==
    IF rhs = 0 /\ dz = "trap" THEN [e |-> e, rhs |-> rhs, end |-> "trap"]
    ELSE IF ~(IF rhs = 0 THEN 0 < e
              ELSE WideLess(WideDiv(Int64Max, rhs), e))
    THEN [e |-> e, rhs |-> rhs, end |-> "ok"]
    ELSE IF fuel = 0 THEN [e |-> e, rhs |-> rhs, end |-> "hang"]
    ELSE avoid_overflow_loop(n, CRem(e + old, n), old, rhs - 1, dz, fuel - 1)

\* element_ *= rhs; element_ %= N;  after the loop ended as l
multiply_after(n, l, ovf) ==
    IF l.end /= "ok" THEN Stopped(l.e, l.end, ovf)
    ELSE Assigned(OvfOr(ovf, multiply_reduce(n, l.e, l.rhs)))

\* the tail shared by operator*=(s64) and operator/=(s64):
\* if( INT64_MAX / rhs < element_ ) { the loop }  element_ *= rhs;
\* element_ %= N;
guarded_multiply(n, e, rhs, dz, ovf) ==
    multiply_after(n, avoid_overflow_loop(n, e, e, rhs, dz, LoopFuel), ovf)

\* operator*=(s64 rhs)
times_assign_s64(n, e, rhs, dz) ==
    guarded_multiply(n, e, standard_modulo(n, rhs), dz, FALSE)

\* a division that clears the element before the exception leaves it
times_inverse_cleared(n, e, inv, dz) ==
    IF inv.status = "throw" THEN Thrown(0, inv.msg)
    ELSE guarded_multiply(n, e, inv.v, dz, inv.ovf)

\* operator/=(s64 rhs), after rhs = standard_modulo<N>(rhs) and
\* inverse_of<N>(rhs) ended as inv
times_inverse_of(n, e, inv, dz) ==
    IF inv.status = "throw" THEN Thrown(e, inv.msg)
    ELSE guarded_multiply(n, e, inv.v, dz, inv.ovf)

\* operator/=(s64 rhs)
div_assign_s64(n, e, rhs, ph, dz) ==
    times_inverse_of(n, e, inverse_of(n, standard_modulo(n, rhs), ph), dz)

\* element_ %= rhs with no test of rhs: the platform stops an integer
\* remainder by zero
rem_assign_unchecked(n, e, rhs) ==
    IF rhs /= 0 THEN Returned(CRem(e, rhs), CRem(e, rhs), FALSE)
    ELSE Stopped(e, "trap", FALSE)

\* operator%=(s64 rhs)
rem_assign_s64(n, e, rhs) ==
    IF rhs /= 0 THEN Returned(CRem(e, rhs), CRem(e, rhs), FALSE)
    ELSE Thrown(e, ModByZeroMsg)

\* a free operator works on the copy lhs of its operand: the object the copy
\* was made from keeps its element e
OnCopy(e, o) == [o EXCEPT !.elem = e]

\* operator/(int_mod<N> lhs, int_mod<N> rhs): lhs /= rhs.value(); return lhs;
div_mod_mod(n, e, r, ph, dz) == OnCopy(e, div_assign_s64(n, e, r, ph, dz))

\* operator/(int_mod<N> lhs, s64 rhs): lhs /= rhs; return lhs;
div_mod_s64(n, e, rhs, ph, dz) == OnCopy(e, div_assign_s64(n, e, rhs, ph, dz))

\* operator/(s64 const lhs, int_mod<N> rhs): lhs /= rhs; return lhs;
\* lhs is a const s64 and rhs converts to no arithmetic type: no operator/=
\* applies, and the template has no valid instantiation
div_s64_mod(n, lhs, e) == Stopped(e, "ill_formed", FALSE)

\* operator%(int_mod<N> lhs, int_mod<N> rhs): lhs %= rhs.value(); return lhs;
\* the std::invalid_argument caught is thrown again
rem_mod_mod(n, e, r) == OnCopy(e, rem_assign_s64(n, e, r))

\* operator%(int_mod<N> lhs, s64 rhs): lhs %= rhs; return lhs;
rem_mod_s64(n, e, rhs) == OnCopy(e, rem_assign_s64(n, e, rhs))

\* operator%(s64 const lhs, int_mod<N> rhs): lhs %= rhs; return lhs;
\* lhs is a const s64 and rhs converts to no arithmetic type: no operator%=
\* applies, and the template has no valid instantiation
rem_s64_mod(n, lhs, e) == Stopped(e, "ill_formed", FALSE)

\* operator*(int_mod<N> lhs, s64 rhs): lhs *= rhs; return lhs;
times_mod_s64(n, e, rhs, dz) == OnCopy(e, times_assign_s64(n, e, rhs, dz))

\* operator*(s64 const lhs, int_mod<N> rhs): rhs *= lhs; return rhs;
times_s64_mod(n, lhs, e, dz) == OnCopy(e, times_assign_s64(n, e, lhs, dz))

\* operator-(int_mod<N> lhs, int_mod<N> rhs): for lhs.value() < rhs.value(),
\* rhs -= lhs; return N - rhs.value(); through int_mod(s64); else lhs -= rhs;
\* return lhs;
minus_mod_mod(n, e, r) ==
    IF e < r
    THEN Returned(e, int_mod_ctor(n, n - minus_assign_mod(n, r, e).elem), FALSE)
    ELSE OnCopy(e, minus_assign_mod(n, e, r))

\* operator-(int_mod<N> lhs, s64 rhs): for lhs.value() < (rhs % N),
\* return (rhs % N) - lhs.value(); through int_mod(s64); else lhs -= rhs;
\* return lhs;
minus_mod_s64(n, e, rhs) ==
    IF e < CRem(rhs, n)
    THEN Returned(e, int_mod_ctor(n, CRem(rhs, n) - e), FALSE)
    ELSE OnCopy(e, minus_assign_s64(n, e, rhs))

\* operator-(s64 const lhs, int_mod<N> rhs): for (lhs % N) < rhs.value(),
\* rhs -= lhs; return N - rhs.value(); else return (lhs % N) - rhs.value();
\* both through int_mod(s64)
minus_s64_mod(n, lhs, e) ==
    IF CRem(lhs, n) < e
    THEN Returned(e, int_mod_ctor(n, n - minus_assign_s64(n, e, lhs).elem), FALSE)
    ELSE Returned(e, int_mod_ctor(n, CRem(lhs, n) - e), FALSE)

\* a bool result, recorded as the integer it converts to
BoolOf(b) == IF b THEN 1 ELSE 0

\* operator==(s64 rhs) const
equals_s64(n, e, rhs) ==
    Returned(e, BoolOf(e = standard_modulo(n, rhs)), FALSE)

\* operator!=(s64 rhs) const
not_equals_s64(n, e, rhs) ==
    Returned(e, BoolOf(e /= standard_modulo(n, rhs)), FALSE)

\* the decimal digits of n >= 0, the most significant first
RECURSIVE Digits(_)
Digits(n) == IF n < 10 THEN <<n>> ELSE Digits(n \div 10) \o <<n % 10>>

\* the token a stream holds for the integer t: its sign and its digits
DecimalToken(t) == [neg |-> t < 0, digits |-> Digits(Abs(t))]

\* is >> rhs.element_: the s64 that the digits of the token denote
RECURSIVE DigitsValue(_, _)
DigitsValue(ds, acc) ==
    IF ds = <<>> THEN acc ELSE DigitsValue(Tail(ds), 10 * acc + Head(ds))

extract_s64(tok) == Sign(tok.neg, DigitsValue(tok.digits, 0))

\* operator>>(std::istream &is, int_mod<N> &rhs): is >> rhs.element_;
\* rhs.element_ %= N;
stream_extract(n, tok) ==
    Returned(CRem(extract_s64(tok), n), CRem(extract_s64(tok), n), FALSE)

\* the value N - element_ without the conversion to int_mod<N>
unary_minus_unreduced(n, e) == Returned(e, n - e, FALSE)

\* operator-() const: return N - element_; the s64 is converted by the
\* constructor int_mod(s64)
unary_minus(n, e) == Returned(e, int_mod_ctor(n, n - e), FALSE)

\* operator+(int_mod<N> lhs, int_mod<N> rhs): lhs += rhs; return lhs;
plus_mod_mod(n, e, r) == OnCopy(e, plus_assign_mod(n, e, r))

---------------------------------------------------------------------------
(* The driver: one object x of int_mod<N>, the static phi of               *)
(* inverse_of<N>, and the call made last.                                  *)

Moduli == 2..MaxN

\* the values around the multiples of n, and the small integers
Edge(n) == {-(n + 1), -n, -(n - 1), -1, 0, 1, 2, n - 1, n, n + 1, 2 * n}
Raw(n) == Edge(n) \cup (-Span..Span)

\* the elements another object of int_mod<n> can hold
Residues(n) == {int_mod_ctor(n, x) : x \in Raw(n)}

Threads == 1..NThreads

\* a thread that has not called inverse_of<N> yet.  pc is where the thread
\* is: "idle" outside a call, "test" before if( phi == 0 ), "init" inside the
\* if, "rest" after it, "done" when the call ended as status, ret, msg; wrote
\* counts the assignments to phi the thread has made
IdleThread ==
    [pc |-> "idle", n |-> 0, calls |-> 0, wrote |-> 0,
     status |-> "ok", ret |-> 0, msg |-> NoMsg]

Call(op, a, b, c, pre, o) ==
    [op |-> op, a |-> a, b |-> b, c |-> c, pre |-> pre, ret |-> o.ret,
     status |-> o.status, msg |-> o.msg, ovf |-> o.ovf]

CallLimit == IF N = BigN THEN MaxCallsBig ELSE MaxCalls

\* the process is running, and the driver has calls left
Alive == last.status \in {"ok", "throw"} /\ calls < CallLimit

\* the call op(a, b) on x ends as o; a signed overflow on the way is
\* undefined: the build wraps (o as computed) or traps
Apply(op, a, b, o) ==
    \E o1 \in {o} :
    \E ub \in (IF o1.ovf THEN OverflowOutcomes ELSE {"wrap"}) :
    \E o2 \in {IF ub = "trap" THEN Stopped(element_, "trap", TRUE) ELSE o1} :
        /\ element_' = o2.elem
        /\ last' = Call(op, a, b, 0, element_, o2)
        /\ calls' = calls + 1
        /\ UNCHANGED <<N, thread, stack>>

\* int_mod<N> x;  or  int_mod<N> x(num);
Construct(n) ==
    /\ N = n
    /\ phi = 0
    /\ calls = 0
    /\ thread = [t \in Threads |-> IdleThread]
    /\ stack = <<>>
    /\ \/ /\ element_ = 0
          /\ last = Call("int_mod_default", 0, 0, 0, 0, Returned(0, 0, FALSE))
       \/ \E num \in Raw(n) :
            /\ element_ = int_mod_ctor(n, num)
            /\ last = Call("int_mod", num, 0, 0, 0,
                           Returned(element_, element_, FALSE))

Init == \E n \in Moduli : Construct(n)

\* The calls that reach inverse_of<N> leave its static phi initialised: each
\* is written as what it does once phi' is known.

\* x.inverse()
InverseCall == Apply("inverse", 0, 0, inverse(N, element_, phi'))

Inverse == Alive /\ phi' = phi_after_init /\ InverseCall

\* the outcome of a call of a free function that ended as r
FreeCall(e, r) ==
    IF r.status = "throw" THEN Thrown(e, r.msg) ELSE ReturnedValue(e, r)

\* impl_details::inverse_of<N>(n)
CallInverseOf ==
    /\ Alive
    /\ phi' = phi_after_init
    /\ \E n \in Raw(N) :
         Apply("inverse_of", n, 0, FreeCall(element_, inverse_of(N, n, phi')))

\* ++x
PreIncrement ==
    /\ Alive
    /\ LET e == pre_increment(N, element_)
       IN  Apply("++x", 0, 0, Returned(e, e, FALSE))
    /\ UNCHANGED phi

\* x++
PostIncrement ==
    /\ Alive
    /\ Apply("x++", 0, 0, post_increment(N, element_))
    /\ UNCHANGED phi

\* --x
PreDecrement ==
    /\ Alive
    /\ LET e == pre_decrement(N, element_)
       IN  Apply("--x", 0, 0, Returned(e, e, FALSE))
    /\ UNCHANGED phi

\* x--
PostDecrement ==
    /\ Alive
    /\ Apply("x--", 0, 0, post_decrement(N, element_))
    /\ UNCHANGED phi

\* x = y
AssignMod ==
    /\ Alive
    /\ \E r \in Residues(N) : Apply("=", r, 0, assign_mod(N, element_, r))
    /\ UNCHANGED phi

\* x += y
PlusAssignMod ==
    /\ Alive
    /\ \E r \in Residues(N) : Apply("+=", r, 0, plus_assign_mod(N, element_, r))
    /\ UNCHANGED phi

\* x -= y
MinusAssignMod ==
    /\ Alive
    /\ \E r \in Residues(N) : Apply("-=", r, 0, minus_assign_mod(N, element_, r))
    /\ UNCHANGED phi

\* x *= y
TimesAssignMod ==
    /\ Alive
    /\ \E r \in Residues(N) : Apply("*=", r, 0, times_assign_mod(N, element_, r))
    /\ UNCHANGED phi

\* x /= y
DivAssignModCall ==
    \E r \in Residues(N) :
        Apply("/=", r, 0, div_assign_mod(N, element_, r, phi'))

DivAssignMod == Alive /\ phi' = phi_after_init /\ DivAssignModCall

\* x %= y
RemAssignMod ==
    /\ Alive
    /\ \E r \in Residues(N) : Apply("%=", r, 0, rem_assign_mod(N, element_, r))
    /\ UNCHANGED phi

\* x = rhs
AssignS64 ==
    /\ Alive
    /\ \E rhs \in Raw(N) : Apply("=s64", rhs, 0, assign_s64(N, element_, rhs))
    /\ UNCHANGED phi

\* x += rhs
PlusAssignS64 ==
    /\ Alive
    /\ \E rhs \in Raw(N) :
         Apply("+=s64", rhs, 0, plus_assign_s64(N, element_, rhs))
    /\ UNCHANGED phi

\* x -= rhs
MinusAssignS64 ==
    /\ Alive
    /\ \E rhs \in Raw(N) :
         Apply("-=s64", rhs, 0, minus_assign_s64(N, element_, rhs))
    /\ UNCHANGED phi

\* x *= rhs
TimesAssignS64 ==
    /\ Alive
    /\ \E rhs \in Raw(N), dz \in DivZeroOutcomes :
         Apply("*=s64", rhs, 0, times_assign_s64(N, element_, rhs, dz))
    /\ UNCHANGED phi

\* x /= rhs
DivAssignS64Call ==
    \E rhs \in Raw(N), dz \in DivZeroOutcomes :
        Apply("/=s64", rhs, 0, div_assign_s64(N, element_, rhs, phi', dz))

DivAssignS64 == Alive /\ phi' = phi_after_init /\ DivAssignS64Call

\* x %= rhs
RemAssignS64 ==
    /\ Alive
    /\ \E rhs \in Raw(N) :
         Apply("%=s64", rhs, 0, rem_assign_s64(N, element_, rhs))
    /\ UNCHANGED phi

\* x / y
DivModMod ==
    /\ Alive
    /\ phi' = phi_after_init
    /\ \E r \in Residues(N), dz \in DivZeroOutcomes :
         Apply("x/y", r, 0, div_mod_mod(N, element_, r, phi', dz))

\* x / rhs
DivModS64 ==
    /\ Alive
    /\ phi' = phi_after_init
    /\ \E rhs \in Raw(N), dz \in DivZeroOutcomes :
         Apply("x/s64", rhs, 0, div_mod_s64(N, element_, rhs, phi', dz))

\* lhs / x
DivS64Mod ==
    /\ Alive
    /\ \E lhs \in Raw(N) : Apply("s64/x", lhs, 0, div_s64_mod(N, lhs, element_))
    /\ UNCHANGED phi

\* x * rhs
TimesModS64 ==
    /\ Alive
    /\ \E rhs \in Raw(N), dz \in DivZeroOutcomes :
         Apply("x*s64", rhs, 0, times_mod_s64(N, element_, rhs, dz))
    /\ UNCHANGED phi

\* lhs * x
TimesS64Mod ==
    /\ Alive
    /\ \E lhs \in Raw(N), dz \in DivZeroOutcomes :
         Apply("s64*x", lhs, 0, times_s64_mod(N, lhs, element_, dz))
    /\ UNCHANGED phi

\* x - y
MinusModMod ==
    /\ Alive
    /\ \E r \in Residues(N) : Apply("x-y", r, 0, minus_mod_mod(N, element_, r))
    /\ UNCHANGED phi

\* x - rhs
MinusModS64 ==
    /\ Alive
    /\ \E rhs \in Raw(N) :
         Apply("x-s64", rhs, 0, minus_mod_s64(N, element_, rhs))
    /\ UNCHANGED phi

\* lhs - x
MinusS64Mod ==
    /\ Alive
    /\ \E lhs \in Raw(N) :
         Apply("s64-x", lhs, 0, minus_s64_mod(N, lhs, element_))
    /\ UNCHANGED phi

\* x == rhs
EqualsS64 ==
    /\ Alive
    /\ \E rhs \in Raw(N) : Apply("==s64", rhs, 0, equals_s64(N, element_, rhs))
    /\ UNCHANGED phi

\* x != rhs
NotEqualsS64 ==
    /\ Alive
    /\ \E rhs \in Raw(N) :
         Apply("!=s64", rhs, 0, not_equals_s64(N, element_, rhs))
    /\ UNCHANGED phi

\* is >> x, the stream holding the token of t
StreamExtract ==
    /\ Alive
    /\ \E t \in Raw(N) :
         Apply("is>>x", t, 0, stream_extract(N, DecimalToken(t)))
    /\ UNCHANGED phi

\* x % y
RemModMod ==
    /\ Alive
    /\ \E r \in Residues(N) : Apply("x%y", r, 0, rem_mod_mod(N, element_, r))
    /\ UNCHANGED phi

\* x % rhs
RemModS64 ==
    /\ Alive
    /\ \E rhs \in Raw(N) : Apply("x%s64", rhs, 0, rem_mod_s64(N, element_, rhs))
    /\ UNCHANGED phi

\* lhs % x
RemS64Mod ==
    /\ Alive
    /\ \E lhs \in Raw(N) : Apply("s64%x", lhs, 0, rem_s64_mod(N, lhs, element_))
    /\ UNCHANGED phi

\* -x
UnaryMinus ==
    /\ Alive
    /\ Apply("-x", 0, 0, unary_minus(N, element_))
    /\ UNCHANGED phi

\* x + y
PlusModMod ==
    /\ Alive
    /\ \E r \in Residues(N) : Apply("x+y", r, 0, plus_mod_mod(N, element_, r))
    /\ UNCHANGED phi

Next ==
    \/ Inverse
    \/ CallInverseOf
    \/ PreIncrement
    \/ PostIncrement
    \/ PreDecrement
    \/ PostDecrement
    \/ AssignMod
    \/ PlusAssignMod
    \/ MinusAssignMod
    \/ TimesAssignMod
    \/ DivAssignMod
    \/ RemAssignMod
    \/ AssignS64
    \/ PlusAssignS64
    \/ MinusAssignS64
    \/ TimesAssignS64
    \/ DivAssignS64
    \/ RemAssignS64
    \/ DivModMod
    \/ DivModS64
    \/ DivS64Mod
    \/ TimesModS64
    \/ TimesS64Mod
    \/ MinusModMod
    \/ MinusModS64
    \/ MinusS64Mod
    \/ EqualsS64
    \/ NotEqualsS64
    \/ StreamExtract
    \/ RemModMod
    \/ RemModS64
    \/ RemS64Mod
    \/ UnaryMinus
    \/ PlusModMod

Spec == Init /\ [][Next]_vars

---------------------------------------------------------------------------
(* The large modulus: int_mod<BigN> x(-1), and the calls that reach        *)
(* inverse_of<BigN>.                                                       *)

InitBig ==
    /\ N = BigN
    /\ phi = 0
    /\ calls = 0
    /\ thread = [t \in Threads |-> IdleThread]
    /\ stack = <<>>
    /\ element_ = int_mod_ctor(BigN, -1)
    /\ last = Call("int_mod", -1, 0, 0, 0, Returned(element_, element_, FALSE))

\* euler_phi(BigN) is the loop of two million iterations: it is evaluated
\* once for the three calls
NextBig ==
    /\ Alive
    /\ phi' = phi_after_init
    /\ \/ InverseCall
       \/ DivAssignModCall
       \/ DivAssignS64Call

SpecBig == InitBig /\ [][NextBig]_vars

---------------------------------------------------------------------------
(* The free functions of impl_details, called on their own.                *)

FnAlive == calls < MaxFnCalls

FnCall(op, a, b, c, ret, ovf) ==
    /\ last' = Call(op, a, b, c, element_, Returned(element_, ret, ovf))
    /\ calls' = calls + 1
    /\ UNCHANGED <<N, element_, phi, thread, stack>>

\* impl_details::gcd(a, b)
CallGcd ==
    /\ FnAlive
    /\ \E a \in -MaxArg..MaxArg, b \in -MaxArg..MaxArg :
         FnCall("gcd", a, b, 0, gcd(a, b), FALSE)

\* impl_details::euler_phi(n)
CallEulerPhi ==
    /\ FnAlive
    /\ \E n \in 1..MaxPhiArg : FnCall("euler_phi", n, 0, 0, euler_phi(n), FALSE)

\* impl_details::ipow(base, exponent, N)
CallIpow ==
    /\ FnAlive
    /\ \E base \in Raw(N), exponent \in -MaxExp..MaxExp :
       \E r \in {ipow(base, exponent, N)} :
         FnCall("ipow", base, exponent, N, r.v, r.ovf)

\* impl_details::standard_modulo<N>(rhs)
CallStandardModulo ==
    /\ FnAlive
    /\ \E rhs \in Raw(N) :
         FnCall("standard_modulo", rhs, 0, 0, standard_modulo(N, rhs), FALSE)

InitFn == \E n \in Moduli \cup {Ceiling} : Construct(n)

NextFn ==
    \/ CallGcd
    \/ CallEulerPhi
    \/ CallIpow
    \/ CallStandardModulo

SpecFn == InitFn /\ [][NextFn]_vars

---------------------------------------------------------------------------
(* Threads calling impl_details::inverse_of<N> at the same time.  The      *)
(* function holds no lock and phi is a plain s64: a thread is between two   *)
(* accesses of phi wherever another one runs.                               *)

\* the other threads stay where they are
Step(t, rec) ==
    /\ thread' = [thread EXCEPT ![t] = rec]
    /\ UNCHANGED <<N, element_, last, calls, stack>>

\* what the threads pass: the elements of an int_mod<n>, -1 and n
ThreadArgs(n) == -1..n

\* thread t calls inverse_of<N>(n)
ThreadCall(t) ==
    /\ thread[t].pc \in {"idle", "done"}
    /\ thread[t].calls < MaxThreadCalls
    /\ \E n \in ThreadArgs(N) :
         Step(t, [IdleThread EXCEPT !.pc = "test", !.n = n,
                                   !.calls = thread[t].calls + 1,
                                   !.wrote = thread[t].wrote])
    /\ UNCHANGED phi

\* if( phi == 0 ): the read of phi
ThreadTestPhi(t) ==
    /\ thread[t].pc = "test"
    /\ Step(t, [thread[t] EXCEPT !.pc = IF phi = 0 THEN "init" ELSE "rest"])
    /\ UNCHANGED phi

\* an initialisation that adds the totient to what phi holds
ThreadAddPhi(t) ==
    /\ thread[t].pc = "init"
    /\ phi' = phi + euler_phi(N)
    /\ Step(t, [thread[t] EXCEPT !.pc = "rest", !.wrote = thread[t].wrote + 1])

\* phi = phi_const;  or  phi = euler_phi(N);
ThreadInitPhi(t) ==
    /\ thread[t].pc = "init"
    /\ phi' = euler_phi(N)
    /\ Step(t, [thread[t] EXCEPT !.pc = "rest", !.wrote = thread[t].wrote + 1])

\* the rest of the function, which reads phi for the exponent, ended as r;
\* a signed overflow in it wraps or traps, by build
ThreadReturn(t, r) ==
    \E ub \in (IF r.ovf THEN OverflowOutcomes ELSE {"wrap"}) :
        Step(t, [thread[t] EXCEPT
                   !.pc = "done",
                   !.status = IF ub = "trap" THEN "trap" ELSE r.status,
                   !.ret = IF ub = "trap" THEN 0 ELSE r.v,
                   !.msg = r.msg])

ThreadRest(t) ==
    /\ thread[t].pc = "rest"
    /\ \E r \in {inverse_of(N, thread[t].n, phi)} : ThreadReturn(t, r)
    /\ UNCHANGED phi

NextThreads ==
    \E t \in Threads :
        \/ ThreadCall(t)
        \/ ThreadTestPhi(t)
        \/ ThreadInitPhi(t)
        \/ ThreadRest(t)

\* the program starts with phi = 0, no thread inside inverse_of<N> and no
\* frame on the stack
InitThreads == Init /\ last.op = "int_mod_default"

SpecThreads == InitThreads /\ [][NextThreads]_vars

---------------------------------------------------------------------------
(* The recursion of gcd and ipow, call by call.  A frame is [fn, a, b]:    *)
(* gcd(a, b), or ipow(a, b, N) with the base a and the exponent b.  The     *)
(* call made first is recorded in last, whose status is "running" while    *)
(* the calls go down, "returning" while they return, and whose ret is the  *)
(* value returned last.                                                     *)

\* the frame returns without a call of its own: b == 0 in gcd, base == 0 or
\* exponent == 0 in ipow
at_base(f) ==
    IF f.fn = "gcd" THEN f.b = 0 ELSE f.a = 0 \/ f.b = 0

\* ipow's call of itself with the exponent halved and rounded down
callee_floor(f) ==
    IF f.fn = "gcd" THEN [fn |-> "gcd", a |-> f.b, b |-> CRem(f.a, f.b)]
    ELSE [fn |-> "ipow", a |-> f.a, b |-> f.b \div 2]

\* the call the frame makes: gcd(b, a % b), ipow(base, exponent / 2, N)
callee(f) ==
    IF f.fn = "gcd" THEN [fn |-> "gcd", a |-> f.b, b |-> CRem(f.a, f.b)]
    ELSE [fn |-> "ipow", a |-> f.a, b |-> CDiv(f.b, 2)]

\* what the frame returns, tmp being what its callee returned
returned(f, tmp) ==
    IF f.fn = "gcd" THEN [v |-> IF f.b = 0 THEN f.a ELSE tmp.v, ovf |-> FALSE]
    ELSE IF f.a = 0 THEN [v |-> 0, ovf |-> FALSE]
    ELSE IF f.b = 0 THEN [v |-> 1, ovf |-> FALSE]
    ELSE ipow_return(f.a, f.b, N, tmp)

\* gcd(a, b) or ipow(base, exponent, N) is called
RecCall ==
    /\ stack = <<>>
    /\ calls < MaxFnCalls
    /\ \E f \in [fn : {"gcd"}, a : -MaxArg..MaxArg, b : -MaxArg..MaxArg]
               \cup [fn : {"ipow"}, a : Raw(N), b : -MaxExp..MaxExp] :
         /\ stack' = <<f>>
         /\ last' = Call(f.fn, f.a, f.b, N, element_,
                         Stopped(element_, "running", FALSE))
    /\ calls' = calls + 1
    /\ UNCHANGED <<N, element_, phi, thread>>

\* the innermost frame calls the function again
Descend ==
    /\ last.status = "running"
    /\ ~at_base(stack[Len(stack)])
    /\ stack' = Append(stack, callee(stack[Len(stack)]))
    /\ UNCHANGED <<N, element_, phi, last, calls, thread>>

\* the innermost frame returns to its caller; a signed overflow in the
\* product it returns wraps or traps, by build
Return ==
    /\ \/ last.status = "running" /\ at_base(stack[Len(stack)])
       \/ last.status = "returning"
    /\ \E r \in {returned(stack[Len(stack)], [v |-> last.ret, ovf |-> FALSE])} :
       \E ub \in (IF r.ovf THEN OverflowOutcomes ELSE {"wrap"}) :
         IF ub = "trap"
         THEN /\ last' = [last EXCEPT !.status = "trap", !.ovf = TRUE]
              /\ UNCHANGED stack
         ELSE /\ stack' = SubSeq(stack, 1, Len(stack) - 1)
              /\ last' = [last EXCEPT
                            !.ret = r.v,
                            !.status = IF Len(stack) = 1 THEN "ok"
                                       ELSE "returning"]
    /\ UNCHANGED <<N, element_, phi, calls, thread>>

NextRec ==
    \/ RecCall
    \/ Descend
    \/ Return

\* a call that has been made runs on: the steps of the recursion are taken
\* as long as one is possible
SpecRec == InitThreads /\ [][NextRec]_vars /\ WF_vars(Descend \/ Return)

---------------------------------------------------------------------------
(* Properties.  The arithmetic they are stated with is defined here, apart  *)
(* from the functions of the code.                                          *)

Divides(d, a) == a % d = 0

\* a >= 0 and b >= 2 have no common divisor but 1
Coprime(a, b) == \A d \in 2..b : Divides(d, b) => ~Divides(d, a)

\* the greatest common divisor of |a| and |b|, not both 0
GreatestCommonDivisor(a, b) ==
    CHOOSE d \in 1..(Abs(a) + Abs(b)) :
        /\ Divides(d, Abs(a)) /\ Divides(d, Abs(b))
        /\ \A e \in (d + 1)..(Abs(a) + Abs(b)) :
             ~(Divides(e, Abs(a)) /\ Divides(e, Abs(b)))

\* (x * y) mod n for 0 <= x, y, computed without a bound on the product
MulMod(x, y, n) == WideRem(WideMul(WideOf(x), y), n)

\* base^exponent mod n for base, exponent >= 0
RECURSIVE PowMod(_, _, _)
PowMod(base, exponent, n) ==
    IF exponent = 0 THEN 1 % n
    ELSE MulMod(PowMod(base, exponent - 1, n), base % n, n)

\* the text the not-invertible error is to carry
ExpectedMsg(n, m, d) ==
    <<n, " is not invertible modulo ", m, " because gcd(", n, ", ", m,
      ") = ", d, ", which is not 1.\n">>

\* C1: after the construction and after every call of an assignment, ++, --,
\* +=, -=, *=, /=, %= operator, ended or thrown, the stored element is in
\* 0..N-1.
C1_ElementInRange == element_ \in 0..(N - 1)

\* C2: standard_modulo<N>(x) returns the r in 0..N-1 that is congruent to x
\* modulo N, for x = N and the multiples of N too.
C2_StandardModuloCanonical ==
    last.op = "standard_modulo" => last.ret = last.a % N

\* C3: int_mod<N>(x).value() is x mod N with floor semantics, in 0..N-1, for
\* negative x and for the multiples of N too.
C3_ConstructorCanonical ==
    last.op = "int_mod" => (element_ = last.a % N /\ last.ret = last.a % N)

C3_NegativeMultipleConstructed ==
    /\ last.op = "int_mod"
    /\ last.a < 0
    /\ last.a % N = 0
    /\ element_ = 0

\* C4: gcd(a, b), a and b not both zero, is the non-negative greatest
\* common divisor of |a| and |b|.
C4_GcdNonNegative ==
    (last.op = "gcd" /\ ~(last.a = 0 /\ last.b = 0))
        => last.ret = GreatestCommonDivisor(last.a, last.b)

\* C5: for an element n in 0..N-1 coprime to N, inverse() returns an m in
\* 0..N-1 with (n * m) mod N = 1.
C5_InverseIsInverse ==
    (last.op = "inverse" /\ last.pre \in 0..(N - 1) /\ Coprime(last.pre, N))
        => /\ last.status = "ok"
           /\ last.ret \in 0..(N - 1)
           /\ MulMod(last.pre, last.ret, N) = 1

\* C6: when d = gcd(n, N) is not 1, inverse_of<N>(n) throws with the text
\* "<n> is not invertible modulo <N> because gcd(<n>, <N>) = <d>, which is
\* not 1.\n", n as passed; inverse() does with the stored element for n.
C6_NotInvertibleMessage ==
    /\ (last.op = "inverse_of" /\ GreatestCommonDivisor(last.a, N) /= 1)
         => /\ last.status = "throw"
            /\ last.msg = ExpectedMsg(last.a, N,
                                      GreatestCommonDivisor(last.a, N))
    /\ (last.op = "inverse" /\ GreatestCommonDivisor(last.pre, N) /= 1)
         => /\ last.status = "throw"
            /\ last.msg = ExpectedMsg(last.pre, N,
                                      GreatestCommonDivisor(last.pre, N))

\* C7: int_mod<N> / s64 with an integer r not coprime to N throws with the
\* text that names r as the caller passed it, not its residue.
C7_MessageNamesRawDivisor ==
    (last.op = "x/s64" /\ GreatestCommonDivisor(last.a, N) /= 1)
        => /\ last.status = "throw"
           /\ last.msg = ExpectedMsg(last.a, N,
                                     GreatestCommonDivisor(last.a, N))

\* the call made last returned the q in 0..N-1 with q * b congruent to a
C8_Quotient(a, b) ==
    /\ last.status = "ok"
    /\ last.ret \in 0..(N - 1)
    /\ (last.ret * b) % N = a % N

\* C8: a / b with b coprime to N is, in each of the forms int_mod / int_mod,
\* int_mod / s64 and s64 / int_mod, the q in 0..N-1 with q * b congruent to
\* a modulo N.
C8_DivisionInThreeForms ==
    /\ (last.op \in {"x/y", "x/s64"} /\ GreatestCommonDivisor(last.a, N) = 1)
         => C8_Quotient(last.pre, last.a)
    /\ (last.op = "s64/x" /\ GreatestCommonDivisor(last.pre, N) = 1)
         => C8_Quotient(last.a, last.pre)

\* C9: for base >= 0 and exponent >= 0, not both 0, ipow(base, exponent, N)
\* returns base^exponent mod N.
C9_IpowIsPowerModN ==
    ( /\ last.op = "ipow"
      /\ last.a >= 0
      /\ last.b >= 0
      /\ ~(last.a = 0 /\ last.b = 0) )
        => last.ret = PowMod(last.a, last.b, N)

\* C10: ipow(base, 0, N) returns 1 for every base, base 0 included.
C10_IpowExponentZero ==
    (last.op = "ipow" /\ last.b = 0) => last.ret = 1

\* C11: ipow called with a negative exponent ends with an invalid-argument
\* error thrown to the caller; it returns no number.
C11_NegativeExponentThrows ==
    (last.op = "ipow" /\ last.b < 0) => last.status = "throw"

\* C12: for a base in 0..N-1 and an exponent >= 0, N up to 10^9, no product
\* formed inside ipow is outside the range of a signed 64-bit integer.
C12_IpowProductsFit ==
    (last.op = "ipow" /\ last.a \in 0..(N - 1) /\ last.b >= 0) => ~last.ovf

\* C13: for n >= 1, euler_phi(n) is the number of integers in 1..n that are
\* coprime to n.
C13_EulerPhiCounts ==
    last.op = "euler_phi"
        => last.ret = Cardinality({k \in 1..last.a : Coprime(k, last.a)})

C13_PhiOfSquare ==
    last.op = "euler_phi" /\ last.a = 9 /\ last.ret = 6

\* C14: x += r, x -= r with another int_mod<N> or a raw integer r, and
\* x *= y with another int_mod<N>, leave the element of x, e in 0..N-1,
\* equal to (e + r) mod N, (e - r) mod N and (e * r) mod N.
C14_CompoundAddSubMul ==
    /\ (last.op \in {"+=", "+=s64"} /\ last.pre \in 0..(N - 1))
         => (last.status = "ok" /\ element_ = (last.pre + last.a) % N)
    /\ (last.op \in {"-=", "-=s64"} /\ last.pre \in 0..(N - 1))
         => (last.status = "ok" /\ element_ = (last.pre - last.a) % N)
    /\ (last.op = "*=" /\ last.pre \in 0..(N - 1))
         => (last.status = "ok" /\ element_ = (last.pre * last.a) % N)

C14_SubtractedMultipleOfN ==
    last.op = "-=s64" /\ last.a = N /\ last.pre = 1 /\ element_ = 1

\* C15: x *= r with a raw integer r, and x * r and r * x built on it, end
\* without a fault for every r, r = 0 and the multiples of N included, and
\* yield (e * r) mod N for the element e of x.
C15_TimesRawInteger ==
    /\ (last.op = "*=s64" /\ last.pre \in 0..(N - 1))
         => (last.status = "ok" /\ element_ = (last.pre * last.a) % N)
    /\ (last.op \in {"x*s64", "s64*x"} /\ last.pre \in 0..(N - 1))
         => (last.status = "ok" /\ last.ret = (last.pre * last.a) % N)

\* C16: x - y, x - b and a - x, x holding the element of int_mod<N>(a) or
\* int_mod<N>(b), each return (a - b) mod N in 0..N-1.
C16_SubtractionInThreeForms ==
    /\ (last.op \in {"x-y", "x-s64"} /\ last.pre \in 0..(N - 1))
         => (last.status = "ok" /\ last.ret = (last.pre - last.a) % N)
    /\ (last.op = "s64-x" /\ last.pre \in 0..(N - 1))
         => (last.status = "ok" /\ last.ret = (last.a - last.pre) % N)

\* C17: x == r is true exactly when the element of x is congruent to the raw
\* integer r modulo N, and x != r exactly when it is not, r = N, the
\* multiples of N and negative r included.
C17_EqualityWithRawInteger ==
    /\ (last.op = "==s64" /\ last.pre \in 0..(N - 1))
         => (last.ret = 1 <=> (last.pre - last.a) % N = 0)
    /\ (last.op = "!=s64" /\ last.pre \in 0..(N - 1))
         => (last.ret = 1 <=> (last.pre - last.a) % N /= 0)

\* C18: is >> x with the token of a signed decimal integer t, negative t
\* included, leaves the element of x equal to t mod N in 0..N-1.
C18_ParsedValueCanonical ==
    last.op = "is>>x" => (last.status = "ok" /\ element_ = last.a % N)

\* C19: for every element v in 0..N-1, ++x maps v to v + 1 when v < N - 1
\* and to 0 when v = N - 1, and --x maps v to v - 1 when v > 0 and to N - 1
\* when v = 0: the results are (v + 1) mod N and (v - 1) mod N.
C19_IncrementDecrementWrap ==
    /\ (last.op = "++x" /\ last.pre \in 0..(N - 1))
         => /\ last.status = "ok"
            /\ element_ = (IF last.pre < N - 1 THEN last.pre + 1 ELSE 0)
            /\ element_ = (last.pre + 1) % N
            /\ last.ret = element_
    /\ (last.op = "--x" /\ last.pre \in 0..(N - 1))
         => /\ last.status = "ok"
            /\ element_ = (IF last.pre > 0 THEN last.pre - 1 ELSE N - 1)
            /\ element_ = (last.pre - 1) % N
            /\ last.ret = element_

C19_IncrementWrapsAtTop ==
    last.op = "++x" /\ last.pre = N - 1 /\ N = MaxN /\ element_ = 0

\* C20: x %= y, x %= r, x % y and x % r with a right-hand side that is zero
\* throw with the text "Cannot mod by zero.", which no not-invertible error
\* carries; with a right-hand side that is not zero they return.
C20_RemainderByZeroThrows ==
    last.op \in {"%=", "%=s64", "x%y", "x%s64"}
        => /\ last.a = 0
                => /\ last.status = "throw"
                   /\ last.msg = ModByZeroMsg
                   /\ \A m \in Raw(N), d \in 0..N :
                          last.msg /= ExpectedMsg(m, N, d)
           /\ last.a /= 0 => last.status = "ok"

C20_FreeRemainderByZero ==
    /\ last.op = "x%s64" /\ last.a = 0 /\ last.pre = 1
    /\ last.status = "throw" /\ last.msg = ModByZeroMsg

\* C21: for an object x with element e in 0..N-1, -x returns the value with
\* element N - e when e /= 0 and 0 when e = 0, x + (-x) is 0, and x keeps
\* its element.
C21_NegationIsAdditiveInverse ==
    (last.op = "-x" /\ last.pre \in 0..(N - 1))
        => /\ last.status = "ok"
           /\ last.ret = (IF last.pre /= 0 THEN N - last.pre ELSE 0)
           /\ plus_mod_mod(N, last.pre, last.ret).ret = 0
           /\ element_ = last.pre

C21_NegatedZero == last.op = "-x" /\ last.pre = 0 /\ last.ret = 0

\* C22: for all non-zero integers a and b of either sign, a = -b included,
\* gcd(a, b) = gcd(b, a).
C22_GcdSymmetric ==
    (last.op = "gcd" /\ last.a /= 0 /\ last.b /= 0)
        => last.ret = gcd(last.b, last.a)

\* C23: for every modulus N >= 2 and every integer x,
\* standard_modulo<N>(standard_modulo<N>(x)) = standard_modulo<N>(x).
C23_StandardModuloIdempotent ==
    last.op = "standard_modulo" => standard_modulo(N, last.ret) = last.ret

C23_NegativeMultipleFixed ==
    last.op = "standard_modulo" /\ last.a = -N /\ last.ret = N

\* C24: for every raw integer n, negative or not below N, with |n| coprime
\* to N, inverse_of<N>(n) returns the m in 0..N-1 with (n * m) mod N = 1: it
\* does not throw and returns no negative value.
C24_InverseOfRawInteger ==
    (last.op = "inverse_of" /\ GreatestCommonDivisor(last.a, N) = 1)
        => /\ last.status = "ok"
           /\ last.ret \in 0..(N - 1)
           /\ (last.a * last.ret) % N = 1

\* C25: when x /= y, x /= r, x / y, x / r, x %= y, x %= r, x % y or x % r
\* throws, x holds the element it held before the call.
C25_FailureLeavesElement ==
    (/\ last.op \in {"/=", "/=s64", "x/y", "x/s64", "%=", "%=s64", "x%y", "x%s64"}
     /\ last.status = "throw")
        => element_ = last.pre

C25_FailedDivisionAssignment ==
    /\ last.op = "/=s64" /\ last.status = "throw"
    /\ last.pre = 2 /\ element_ = 2

\* C26: ++x and --x return the value after the update, x++ and x-- return
\* the value x held before it, and in the four cases x then holds the updated
\* value, (v + 1) mod N or (v - 1) mod N for an element v in 0..N-1.
C26_PrefixAndPostfixResults ==
    last.pre \in 0..(N - 1)
        => /\ last.op \in {"++x", "x++"}
                => last.status = "ok" /\ element_ = (last.pre + 1) % N
           /\ last.op \in {"--x", "x--"}
                => last.status = "ok" /\ element_ = (last.pre - 1) % N
           /\ last.op \in {"++x", "--x"} => last.ret = element_
           /\ last.op \in {"x++", "x--"} => last.ret = last.pre

C26_PostfixIncrementAtTop ==
    /\ last.op = "x++" /\ last.pre = N - 1
    /\ last.ret = N - 1 /\ element_ = 0

\* the assignments to phi the threads 1..k have made
RECURSIVE WritesOf(_)
WritesOf(k) == IF k = 0 THEN 0 ELSE thread[k].wrote + WritesOf(k - 1)

\* C27: when several threads call inverse_of<N> at the same time, phi is
\* computed and written once: no two callers are both past the test
\* phi == 0 with phi found 0, and the threads make at most one assignment to
\* phi.
C27_PhiInitialisedOnce ==
    /\ Cardinality({t \in Threads : thread[t].pc = "init"}) <= 1
    /\ WritesOf(NThreads) <= 1

\* the calls of s and t have ended, with the same argument
SameCallEnded(s, t) ==
    /\ thread[s].pc = "done" /\ thread[t].pc = "done"
    /\ thread[s].n = thread[t].n

\* C28: the static phi of inverse_of<N> is 0 or euler_phi(N), and once it is
\* not 0 it does not change; two calls of inverse_of<N> with the same n, the
\* first call of the program and the later ones, end the same way: the same
\* value returned or the same error thrown.
C28_CacheStableAndOutcomesRepeat ==
    /\ [](phi \in {0, euler_phi(N)})
    /\ [][phi /= 0 => phi' = phi]_vars
    /\ [](\A s, t \in Threads :
            SameCallEnded(s, t)
                => /\ thread[s].status = thread[t].status
                   /\ thread[s].ret = thread[t].ret
                   /\ thread[s].msg = thread[t].msg)

C28_FirstAndLaterCall ==
    /\ SameCallEnded(1, 2) /\ thread[1].n = N - 1 /\ N = MaxN
    /\ thread[1].wrote = 1 /\ thread[1].calls = 1
    /\ thread[2].wrote = 0 /\ thread[2].calls = MaxThreadCalls
    /\ thread[2].status = "ok" /\ thread[2].ret = N - 1
    /\ phi = euler_phi(N)

\* how many times e is halved, rounding toward zero, before it is 0
RECURSIVE Halvings(_)
Halvings(e) == IF e = 0 THEN 0 ELSE 1 + Halvings(CDiv(e, 2))

\* C29: gcd(a, b) ends for every pair of integers, negative and zero
\* arguments included, and ipow ends for every exponent, negative ones
\* included, with no more calls inside one another than the halvings of the
\* exponent and the first call.
C29_RecursionEnds ==
    /\ (last.status \in {"running", "returning"})
           ~> (last.status = "ok" /\ stack = <<>>)
    /\ [](last.op = "ipow" => Len(stack) <= Halvings(last.b) + 1)
    /\ [](last.op = "gcd" => Len(stack) <= Abs(last.b) + 1)

C29_NegativeExponentEnded ==
    /\ last.op = "ipow" /\ last.b = -MaxExp /\ last.a = N - 1
    /\ last.status = "ok" /\ stack = <<>>

====
